---- MODULE Spec2Model ----
(***************************************************************************)
(* Messenger workflow builder (src/app/page.tsx): the route parser, the    *)
(* workflow document builder with the classification routine it emits,     *)
(* the pipeline the document describes, and the Page component's form and  *)
(* copy-status state.                                                      *)
(*                                                                         *)
(* A string is a sequence of chunks.  A chunk is one character, or a fixed *)
(* word of the source text that holds no quote, backslash or whitespace    *)
(* control character ("Respond OK" is the one chunk <<"Respond OK">>).     *)
(***************************************************************************)
EXTENDS Integers, Sequences, FiniteSets, TLC

VARIABLES
  pc,             \* phase of the run
  form,           \* useState<FormState>
  keywordInput,   \* useState(DEFAULT_KEYWORD_INPUT)
  keywordRoutes,  \* useMemo(parseKeywordInput(keywordInput))
  workflowJson,   \* useMemo(generateWorkflowJson(form, keywordRoutes))
  request,        \* the inbound event handed to the pipeline ($json of the webhook)
  result,         \* the item returned by the Normalize Event routine
  node,           \* the pipeline node about to run
  visited,        \* names of the nodes that have run, in order
  sent,           \* number of Graph API calls made by Send Messenger Reply
  copyStatus,     \* useState<"idle" | "success" | "error">
  writes,         \* handleCopy calls awaiting navigator.clipboard.writeText
  timers,         \* pending setTimeout callbacks, by due time
  now             \* the clock, in ms

vars == <<pc, form, keywordInput, keywordRoutes, workflowJson, request, result,
          node, visited, sent, copyStatus, writes, timers, now>>

\* A JavaScript value that may be undefined (an absent property, a missing
\* query parameter): None, or Some(string).
None == [some |-> FALSE, v |-> <<>>]
Some(s) == [some |-> TRUE, v |-> s]

(***************************************************************************)
(* Strings                                                                 *)
(***************************************************************************)
S(c) == <<c>>

StringsUpTo(A, n) == UNION {[1..k -> A] : k \in 0..n}

\* String.prototype.trim's white space, as far as the alphabets here go.
WhiteSpace == {" ", "\t", "\n", "\r"}

RECURSIVE TrimStart(_)
TrimStart(s) ==
  IF s # <<>> /\ Head(s) \in WhiteSpace THEN TrimStart(Tail(s)) ELSE s

RECURSIVE TrimEnd(_)
TrimEnd(s) ==
  IF s # <<>> /\ s[Len(s)] \in WhiteSpace
    THEN TrimEnd(SubSeq(s, 1, Len(s) - 1))
    ELSE s

\* String.prototype.trim
Trim(s) == TrimEnd(TrimStart(s))

\* s has d at index i
MatchesAt(s, d, i) ==
  /\ i + Len(d) - 1 <= Len(s)
  /\ \A k \in 1..Len(d) : s[i + k - 1] = d[k]

\* String.prototype.includes
Includes(s, d) == \E i \in 1..(Len(s) + 1) : MatchesAt(s, d, i)

RECURSIVE SplitFrom(_, _, _, _)
SplitFrom(s, d, i, cur) ==
  IF i > Len(s) THEN <<cur>>
  ELSE IF MatchesAt(s, d, i)
    THEN <<cur>> \o SplitFrom(s, d, i + Len(d), <<>>)
    ELSE SplitFrom(s, d, i + 1, Append(cur, s[i]))

\* String.prototype.split with a non-empty separator string
Split(s, d) == SplitFrom(s, d, 1, <<>>)

\* Array.prototype.map
MapSeq(f(_), xs) == [i \in 1..Len(xs) |-> f(xs[i])]

RECURSIVE FilterSeq(_, _)
\* Array.prototype.filter
FilterSeq(keep(_), xs) ==
  IF xs = <<>> THEN <<>>
  ELSE IF keep(Head(xs))
    THEN <<Head(xs)>> \o FilterSeq(keep, Tail(xs))
    ELSE FilterSeq(keep, Tail(xs))

RECURSIVE Concat(_)
Concat(xss) == IF xss = <<>> THEN <<>> ELSE Head(xss) \o Concat(Tail(xss))

\* toLowerCase on one character: the capital letters written in this module
LowerOf(c) ==
  CASE c = "A" -> "a"
    [] c = "B" -> "b"
    [] c = "C" -> "c"
    [] c = "M" -> "m"
    [] OTHER -> c

\* String.prototype.toLowerCase
toLowerCase(s) == [i \in 1..Len(s) |-> LowerOf(s[i])]

(***************************************************************************)
(* Route parser                                                            *)
(***************************************************************************)
Delimiter == <<"=", ">">>
NewLine == <<"\n">>

\* The mapping callback of parseKeywordInput on one trimmed, non-blank line,
\* with the filter that follows it: <<>> stands for the null the filter drops,
\* <<route>> for a route it keeps.  parts[2] is undefined when the line has
\* no delimiter.
RouteOfLine(line) ==
  LET parts == MapSeq(Trim, Split(line, Delimiter))
      phrasePart == parts[1]
      replyMissing == Len(parts) < 2 \/ parts[2] = <<>>
  IN IF phrasePart = <<>> \/ replyMissing
       THEN <<>>
       ELSE <<[phrase |-> phrasePart, reply |-> parts[2]]>>

NonEmpty(x) == x # <<>>

parseKeywordInput(value) ==
  LET lines == FilterSeq(NonEmpty, MapSeq(Trim, Split(value, NewLine)))
  IN Concat(MapSeq(RouteOfLine, lines))

(***************************************************************************)
(* JSON text.  A JSON value is a record [t, s, xs]: a string (t = "str",   *)
(* s its chunks), a number or boolean (t = "num" / "bool", s its one       *)
(* numeral or keyword chunk), an array (t = "arr", xs its elements) or an  *)
(* object (t = "obj", xs its members <<key, value>> in insertion order).   *)
(* JSON.stringify's indentation is white space between tokens and is left  *)
(* out of the text; JSON.parse skips it.                                   *)
(***************************************************************************)
JStr(s) == [t |-> "str", s |-> s, xs |-> <<>>]
JNum(numeral) == [t |-> "num", s |-> <<numeral>>, xs |-> <<>>]
JBool(b) == [t |-> "bool", s |-> IF b THEN <<"true">> ELSE <<"false">>, xs |-> <<>>]
JArr(elems) == [t |-> "arr", s |-> <<>>, xs |-> elems]
JObj(members) == [t |-> "obj", s |-> <<>>, xs |-> members]

Quote == "\""
BackSlash == "\\"

\* JSON.stringify's escape of one character of a string
EscapeChunk(c) ==
  CASE c = Quote -> <<BackSlash, Quote>>
    [] c = BackSlash -> <<BackSlash, BackSlash>>
    [] c = "\n" -> <<BackSlash, "n">>
    [] c = "\t" -> <<BackSlash, "t">>
    [] c = "\r" -> <<BackSlash, "r">>
    [] OTHER -> <<c>>

\* JSON.stringify of a string: its quoted, escaped text
QuoteString(s) == <<Quote>> \o Concat(MapSeq(EscapeChunk, s)) \o <<Quote>>

RECURSIVE JoinWith(_, _)
\* Array.prototype.join on texts
JoinWith(texts, sep) ==
  IF texts = <<>> THEN <<>>
  ELSE IF Len(texts) = 1 THEN texts[1]
  ELSE texts[1] \o sep \o JoinWith(Tail(texts), sep)

RECURSIVE Stringify(_)
\* JSON.stringify of a value
Stringify(v) ==
  CASE v.t = "str" -> QuoteString(v.s)
    [] v.t \in {"num", "bool"} -> v.s
    [] v.t = "arr" ->
         <<"[">> \o JoinWith([i \in 1..Len(v.xs) |-> Stringify(v.xs[i])], <<",">>) \o <<"]">>
    [] v.t = "obj" ->
         <<"{">>
         \o JoinWith([i \in 1..Len(v.xs) |->
                        QuoteString(v.xs[i][1]) \o <<":">> \o Stringify(v.xs[i][2])],
                     <<",">>)
         \o <<"}">>

\* the character an escape sequence \c stands for
UnescapeChunk(c) ==
  CASE c = "n" -> "\n"
    [] c = "t" -> "\t"
    [] c = "r" -> "\r"
    [] OTHER -> c

\* In a string literal whose body starts at index i of text, the character
\* at p is escaped when an odd number of backslashes stands right before it.
Escaped(text, i, p) ==
  LET runStart == CHOOSE k \in i..p :
                    /\ \A q \in k..(p - 1) : text[q] = BackSlash
                    /\ k = i \/ text[k - 1] # BackSlash
  IN (p - runStart) % 2 = 1

\* Reads the body of a string literal of text from index i (just after the
\* opening quote) to the first quote that is not escaped:
\* [v |-> the string, next |-> the index after the closing quote].
ReadString(text, i) ==
  LET Closes(j) == text[j] = Quote /\ ~Escaped(text, i, j)
      close == IF \E j \in i..Len(text) : Closes(j)
                 THEN CHOOSE j \in i..Len(text) :
                        Closes(j) /\ \A q \in i..(j - 1) : ~Closes(q)
                 ELSE Len(text) + 1
      \* a backslash that is not escaped starts an escape sequence and is no content
      IsContent(p) == text[p] # BackSlash \/ Escaped(text, i, p)
      content == SelectSeq([k \in 1..(close - i) |-> i + k - 1], IsContent)
  IN [v |-> [n \in 1..Len(content) |->
               IF Escaped(text, i, content[n])
                 THEN UnescapeChunk(text[content[n]])
                 ELSE text[content[n]]],
      next |-> close + 1]

\* A JavaScript object assignment obj[key] = value: a key that is already
\* there keeps its place and takes the new value.
SetMember(members, key, value) ==
  IF \E k \in 1..Len(members) : members[k][1] = key
    THEN [k \in 1..Len(members) |->
            IF members[k][1] = key THEN <<key, value>> ELSE members[k]]
    ELSE Append(members, <<key, value>>)

RECURSIVE ReadValue(_, _), ReadElements(_, _, _), ReadMembers(_, _, _)
\* JSON.parse of the value of text that starts at index i:
\* [v |-> the value, next |-> the index after it].
ReadValue(text, i) ==
  CASE text[i] = Quote ->
         LET r == ReadString(text, i + 1)
         IN [v |-> JStr(r.v), next |-> r.next]
    [] text[i] = "[" ->
         IF text[i + 1] = "]" THEN [v |-> JArr(<<>>), next |-> i + 2]
         ELSE ReadElements(text, i + 1, <<>>)
    [] text[i] = "{" ->
         IF text[i + 1] = "}" THEN [v |-> JObj(<<>>), next |-> i + 2]
         ELSE ReadMembers(text, i + 1, <<>>)
    [] text[i] \in {"true", "false"} ->
         [v |-> JBool(text[i] = "true"), next |-> i + 1]
    [] OTHER -> [v |-> JNum(text[i]), next |-> i + 1]

ReadElements(text, i, acc) ==
  LET r == ReadValue(text, i)
      elems == Append(acc, r.v)
  IN IF text[r.next] = ","
       THEN ReadElements(text, r.next + 1, elems)
       ELSE [v |-> JArr(elems), next |-> r.next + 1]

ReadMembers(text, i, acc) ==
  LET k == ReadString(text, i + 1)
      r == ReadValue(text, k.next + 1)
      members == SetMember(acc, k.v, r.v)
  IN IF text[r.next] = ","
       THEN ReadMembers(text, r.next + 1, members)
       ELSE [v |-> JObj(members), next |-> r.next + 1]

\* JSON.parse
Parse(text) == ReadValue(text, 1).v

\* obj[key] of a parsed object (the key is there)
Get(obj, key) ==
  LET k == CHOOSE k \in 1..Len(obj.xs) : obj.xs[k][1] = key
  IN obj.xs[k][2]

Has(obj, key) == \E k \in 1..Len(obj.xs) : obj.xs[k][1] = key

\* Object.keys
Keys(obj) == [k \in 1..Len(obj.xs) |-> obj.xs[k][1]]

(***************************************************************************)
(* Workflow document builder                                               *)
(***************************************************************************)
\* the characters [a-z0-9] of the regular expression in sanitizeWebhookPath
AlphaNumeric ==
  {"a", "b", "c", "d", "e", "f", "g", "h", "i", "j", "k", "l", "m", "n", "o", "p",
   "q", "r", "s", "t", "u", "v", "w", "x", "y", "z",
   "0", "1", "2", "3", "4", "5", "6", "7", "8", "9"}

RECURSIVE SkipNonAlphaNumeric(_)
SkipNonAlphaNumeric(s) ==
  IF s # <<>> /\ Head(s) \notin AlphaNumeric THEN SkipNonAlphaNumeric(Tail(s)) ELSE s

RECURSIVE ReplaceNonAlphaNumericRuns(_)
\* .replace(/[^a-z0-9]+/g, "-")
ReplaceNonAlphaNumericRuns(s) ==
  IF s = <<>> THEN <<>>
  ELSE IF Head(s) \in AlphaNumeric
    THEN <<Head(s)>> \o ReplaceNonAlphaNumericRuns(Tail(s))
    ELSE <<"-">> \o ReplaceNonAlphaNumericRuns(SkipNonAlphaNumeric(s))

\* RemoveEdgeHyphens, removing nothing
KeepEdgeHyphens(s) == s

\* .replace(/(^-|-$)+/g, ""): a match takes the hyphen at the start and, where
\* it is also the one before the end, that one too; a second match takes the
\* hyphen at the end.
RemoveEdgeHyphens(s) ==
  LET noLead == IF s # <<>> /\ Head(s) = "-" THEN Tail(s) ELSE s
  IN IF noLead # <<>> /\ noLead[Len(noLead)] = "-"
       THEN SubSeq(noLead, 1, Len(noLead) - 1)
       ELSE noLead

sanitizeWebhookPath(name) ==
  RemoveEdgeHyphens(ReplaceNonAlphaNumericRuns(toLowerCase(name)))

\* What one call of generateWorkflowJson reads from outside: the results of
\* its ten crypto.randomUUID() calls and of new Date().toISOString().
Digits == <<"0", "1", "2", "3", "4", "5", "6", "7", "8", "9">>
Entropy ==
  {[uuid |-> [k \in 1..10 |-> <<r, Digits[k]>>], time |-> <<"2026-01-01T00:00:0", r, "Z">>] :
     r \in {"4", "7"}}

generateUuid(label, random) == <<label, "-">> \o random

\* The three values generateWorkflowJson interpolates into functionCode, as
\* the JavaScript literals JSON.stringify writes.
RouteJson(route) ==
  JObj(<< <<S("phrase"), JStr(route.phrase)>>, <<S("reply"), JStr(route.reply)>> >>)

\* FunctionCodeLiterals, with the default reply written as typed
FunctionCodeLiteralsUntrimmedReply(f, routes) ==
  [verifyToken |-> Stringify(JStr(Trim(f.verifyToken))),
   keywordRoutes |-> Stringify(JArr(MapSeq(RouteJson, routes))),
   defaultReply |-> Stringify(JStr(f.defaultReply))]

FunctionCodeLiterals(f, routes) ==
  [verifyToken |-> Stringify(JStr(Trim(f.verifyToken))),
   keywordRoutes |-> Stringify(JArr(MapSeq(RouteJson, routes))),
   defaultReply |-> Stringify(JStr(Trim(f.defaultReply)))]

\* functionCode: the routine's text around the three literals; a stretch of
\* fixed program text is one chunk named by its lines.
FunctionCode(f, routes) ==
  LET lit == FunctionCodeLiterals(f, routes)
  IN <<"<page.tsx 96-97>", "\n", "const verifyToken = ">> \o lit.verifyToken
     \o <<";", "\n", "const keywordRoutes = ">> \o lit.keywordRoutes
     \o <<";", "\n", "<page.tsx 100-145>", "\n", "const replyText = matchedRoute?.reply ?? ">>
     \o lit.defaultReply
     \o <<";", "\n", "<page.tsx 150-163>">>

W(word) == JStr(<<word>>)
M(key, value) == <<S(key), value>>

\* NodeNames, with the last node given the name of the fourth
NodeNamesWithTwoRespondVerification ==
  <<"Messenger Webhook", "Normalize Event", "Route Verification",
    "Respond Verification", "Should Reply?", "Send Messenger Reply",
    "Respond Verification">>

NodeNames ==
  <<"Messenger Webhook", "Normalize Event", "Route Verification",
    "Respond Verification", "Should Reply?", "Send Messenger Reply", "Respond OK">>

IfNode(id, name, x, y, flag) ==
  JObj(<<M("id", JStr(id)), M("name", W(name)), M("type", W("n8n-nodes-base.if")),
         M("typeVersion", JNum("1")), M("position", JArr(<<JNum(x), JNum(y)>>)),
         M("parameters", JObj(<<M("conditions", JObj(<<M("boolean", JArr(<<
             JObj(<<M("value1", JStr(<<"={{$json.", flag, "}}">>)),
                    M("operation", W("isTrue"))>>)>>))>>))>>))>>)

RespondNode(id, name, x, y) ==
  JObj(<<M("id", JStr(id)), M("name", W(name)),
         M("type", W("n8n-nodes-base.respondToWebhook")),
         M("typeVersion", JNum("1")), M("position", JArr(<<JNum(x), JNum(y)>>)),
         M("parameters", JObj(<<M("respondWith", W("json")),
                                M("responseBody", W("={{$json.responseBody}}")),
                                M("responseCode", W("={{$json.statusCode}}"))>>))>>)

\* bodyParametersJson of Send Messenger Reply: a string literal
BodyParametersJson ==
  <<"{", Quote, "messaging_type", Quote, ":", Quote, "RESPONSE", Quote, ",",
    Quote, "recipient", Quote, ":", "{", Quote, "id", Quote, ":",
    Quote, "={{$json.senderId}}", Quote, "}", ",",
    Quote, "message", Quote, ":", "{", Quote, "text", Quote, ":",
    Quote, "={{$json.replyText}}", Quote, "}", "}">>

\* `{"access_token":"${form.pageAccessToken}"}`, the token not trimmed
QueryParametersJsonUntrimmed(f) ==
  <<"{", Quote, "access_token", Quote, ":", Quote>> \o f.pageAccessToken \o <<Quote, "}">>

\* `{"access_token":"${form.pageAccessToken.trim()}"}`
QueryParametersJson(f) ==
  <<"{", Quote, "access_token", Quote, ":", Quote>> \o Trim(f.pageAccessToken) \o <<Quote, "}">>

\* the nodes array of the workflow object
WorkflowNodes(f, routes, e) ==
  LET webhookPath ==
        IF f.webhookPath # <<>> THEN f.webhookPath
        ELSE sanitizeWebhookPath(f.automationName)
  IN <<
    JObj(<<M("id", JStr(generateUuid("webhook", e.uuid[1]))),
           M("name", W(NodeNames[1])), M("type", W("n8n-nodes-base.webhook")),
           M("typeVersion", JNum("1")),
           M("position", JArr(<<JNum("-520"), JNum("300")>>)),
           M("parameters", JObj(<<M("httpMethod", W("POST")),
                                  M("path", JStr(webhookPath)),
                                  M("responseMode", W("responseNode")),
                                  M("options", JObj(<<M("rawBody", JBool(FALSE))>>))>>)),
           M("webhookId", JStr(generateUuid("webhook-path", e.uuid[10])))>>),
    JObj(<<M("id", JStr(generateUuid("function", e.uuid[2]))),
           M("name", W(NodeNames[2])), M("type", W("n8n-nodes-base.function")),
           M("typeVersion", JNum("1")),
           M("position", JArr(<<JNum("-220"), JNum("300")>>)),
           M("parameters", JObj(<<M("functionCode", JStr(FunctionCode(f, routes)))>>))>>),
    IfNode(generateUuid("route-verification", e.uuid[4]), NodeNames[3],
           "40", "300", "isVerification"),
    RespondNode(generateUuid("respond-verification", e.uuid[3]), NodeNames[4],
                "320", "120"),
    IfNode(generateUuid("route-reply", e.uuid[5]), NodeNames[5],
           "320", "460", "shouldReply"),
    JObj(<<M("id", JStr(generateUuid("send-message", e.uuid[6]))),
           M("name", W(NodeNames[6])), M("type", W("n8n-nodes-base.httpRequest")),
           M("typeVersion", JNum("1")),
           M("position", JArr(<<JNum("620"), JNum("420")>>)),
           M("parameters", JObj(<<
             M("method", W("POST")),
             M("url", W("https://graph.facebook.com/v18.0/me/messages")),
             M("authentication", W("none")),
             M("jsonParameters", JBool(TRUE)),
             M("sendBody", JBool(TRUE)),
             M("options", JObj(<<M("fullResponse", JBool(FALSE))>>)),
             M("bodyParametersJson", JStr(BodyParametersJson)),
             M("queryParametersJson", JStr(QueryParametersJson(f))),
             M("headerParametersJson", JStr(
               <<"{", Quote, "Content-Type", Quote, ":",
                 Quote, "application/json", Quote, "}">>))>>))>>),
    RespondNode(generateUuid("respond-ack", e.uuid[7]), NodeNames[7], "880", "580")
  >>

Link(name) == JObj(<<M("node", W(name)), M("type", W("main")), M("index", JNum("0"))>>)
Outputs(branches) == JObj(<<M("main", JArr(branches))>>)

\* WorkflowConnections, without the link from Send Messenger Reply to Respond OK
WorkflowConnectionsNoAckAfterSend ==
  JObj(<<
    M("Messenger Webhook", Outputs(<<JArr(<<Link("Normalize Event")>>)>>)),
    M("Normalize Event", Outputs(<<JArr(<<Link("Route Verification")>>)>>)),
    M("Route Verification", Outputs(<<JArr(<<Link("Respond Verification")>>),
                                      JArr(<<Link("Should Reply?")>>)>>)),
    M("Should Reply?", Outputs(<<JArr(<<Link("Send Messenger Reply")>>),
                                 JArr(<<Link("Respond OK")>>)>>))
  >>)

\* the connections object of the workflow object
WorkflowConnections ==
  JObj(<<
    M("Messenger Webhook", Outputs(<<JArr(<<Link("Normalize Event")>>)>>)),
    M("Normalize Event", Outputs(<<JArr(<<Link("Route Verification")>>)>>)),
    M("Route Verification", Outputs(<<JArr(<<Link("Respond Verification")>>),
                                      JArr(<<Link("Should Reply?")>>)>>)),
    M("Should Reply?", Outputs(<<JArr(<<Link("Send Messenger Reply")>>),
                                 JArr(<<Link("Respond OK")>>)>>)),
    M("Send Messenger Reply", Outputs(<<JArr(<<Link("Respond OK")>>)>>))
  >>)

\* the workflow object
Workflow(f, routes, e) ==
  JObj(<<
    M("id", JStr(generateUuid("workflow", e.uuid[8]))),
    M("name", JStr(IF f.automationName # <<>> THEN f.automationName
                   ELSE <<"Messenger Automation">>)),
    M("active", JBool(FALSE)),
    M("createdAt", JStr(e.time)),
    M("updatedAt", JStr(e.time)),
    M("versionId", JStr(generateUuid("version", e.uuid[9]))),
    M("nodes", JArr(WorkflowNodes(f, routes, e))),
    M("connections", WorkflowConnections),
    M("settings", JObj(<<M("timezone", JStr(f.timezone))>>)),
    M("pinData", JObj(<<>>)),
    M("staticData", JObj(<<>>))
  >>)

generateWorkflowJson(f, routes, e) == Stringify(Workflow(f, routes, e))

(***************************************************************************)
(* The classification routine emitted as functionCode, as the workflow     *)
(* engine runs it on an inbound event.                                     *)
(*                                                                         *)
(* An event is [query |-> [mode, verify_token, challenge], body |-> ...],  *)
(* each query parameter None or Some(string).  A body is                   *)
(* [shape, sender, text]: shape tells how much of body.entry[0].messaging  *)
(* [0] is there; sender and text are messaging[0].sender.id and            *)
(* messaging[0].message.text of an "event" body, None when absent.         *)
(***************************************************************************)
BodyShapes ==
  {"noEntry",         \* body has no entry property
   "entryNotArray",   \* body.entry is not an array
   "emptyEntry",      \* body.entry is []
   "noMessaging",     \* body.entry[0] has no messaging property
   "emptyMessaging",  \* body.entry[0].messaging is []
   "event"}           \* body.entry[0].messaging[0] is an object

RECURSIVE FindLast(_, _)
\* Find, taking the last route that matches instead of the first
FindLast(routes, normalizedText) ==
  IF routes = <<>> THEN <<>>
  ELSE LET later == FindLast(Tail(routes), normalizedText)
       IN IF later # <<>> THEN later
          ELSE IF Includes(normalizedText, Head(routes).phrase) THEN <<Head(routes)>>
          ELSE <<>>

RECURSIVE Find(_, _)
\* normalizedRoutes.find((route) => normalizedText.includes(route.phrase)):
\* <<>> for undefined, <<route>> for the route found
Find(routes, normalizedText) ==
  IF routes = <<>> THEN <<>>
  ELSE IF Includes(normalizedText, Head(routes).phrase) THEN <<Head(routes)>>
  ELSE Find(Tail(routes), normalizedText)

RouteOfJson(o) == [phrase |-> Get(o, S("phrase")).s, reply |-> Get(o, S("reply")).s]

\* The item the routine returns: keys are the properties of its json, and a
\* property that is not among them holds a filler.
VerificationItem(tokenMatches, challenge) ==
  [keys |-> {"isVerification", "statusCode", "responseBody", "tokenMatches"},
   isVerification |-> TRUE,
   shouldReply |-> FALSE,
   statusCode |-> IF tokenMatches THEN 200 ELSE 403,
   responseBody |->
     IF tokenMatches
       THEN (IF challenge.some THEN challenge.v ELSE <<"Verification challenge missing.">>)
       ELSE <<"Verification token mismatch.">>,
   tokenMatches |-> tokenMatches,
   senderId |-> <<>>, replyText |-> <<>>, matchedPhrase |-> None]

\* AckItem, asking for a reply
AckItemReplying ==
  [keys |-> {"isVerification", "shouldReply", "statusCode", "responseBody", "reason",
             "rawEvent"},
   isVerification |-> FALSE,
   shouldReply |-> TRUE,
   statusCode |-> 200,
   responseBody |-> <<"EVENT_RECEIVED">>,
   tokenMatches |-> FALSE,
   senderId |-> <<>>, replyText |-> <<>>, matchedPhrase |-> None]

AckItem ==
  [keys |-> {"isVerification", "shouldReply", "statusCode", "responseBody", "reason",
             "rawEvent"},
   isVerification |-> FALSE,
   shouldReply |-> FALSE,
   statusCode |-> 200,
   responseBody |-> <<"EVENT_RECEIVED">>,
   tokenMatches |-> FALSE,
   senderId |-> <<>>, replyText |-> <<>>, matchedPhrase |-> None]

ReplyItem(senderId, replyText, matchedPhrase) ==
  [keys |-> {"isVerification", "shouldReply", "statusCode", "responseBody", "senderId",
             "replyText", "matchedPhrase", "rawEvent"},
   isVerification |-> FALSE,
   shouldReply |-> TRUE,
   statusCode |-> 200,
   responseBody |-> <<"EVENT_RECEIVED">>,
   tokenMatches |-> FALSE,
   senderId |-> senderId, replyText |-> replyText, matchedPhrase |-> matchedPhrase]

\* functionCode with literals lit, run on the event json
NormalizeEvent(lit, json) ==
  LET query == json.query
      body == json.body
      verifyToken == Parse(lit.verifyToken).s
      routes == MapSeq(RouteOfJson, Parse(lit.keywordRoutes).xs)
      normalizedRoutes ==
        [i \in 1..Len(routes) |->
           [phrase |-> toLowerCase(routes[i].phrase), reply |-> routes[i].reply]]
      tokenMatches == query.verify_token = Some(verifyToken)
      hasMessaging == body.shape = "event"
      senderId == IF hasMessaging /\ body.sender.some THEN body.sender.v ELSE <<>>
      messageText == IF hasMessaging /\ body.text.some THEN body.text.v ELSE <<>>
      normalizedText == toLowerCase(messageText)
      matchedRoute == Find(normalizedRoutes, normalizedText)
      replyText ==
        IF matchedRoute # <<>> THEN matchedRoute[1].reply ELSE Parse(lit.defaultReply).s
      matchedPhrase ==
        IF matchedRoute # <<>> THEN Some(matchedRoute[1].phrase) ELSE None
  IN IF query.mode = Some(<<"subscribe">>)
       THEN VerificationItem(tokenMatches, query.challenge)
     ELSE IF senderId = <<>> \/ messageText = <<>>
       THEN AckItem
     ELSE ReplyItem(senderId, replyText, matchedPhrase)

(***************************************************************************)
(* The pipeline the document describes: the engine runs a node, then the   *)
(* nodes its chosen output is connected to.                                *)
(***************************************************************************)
NoItem == [keys |-> {}, isVerification |-> FALSE, shouldReply |-> FALSE,
           statusCode |-> 0, responseBody |-> <<>>, tokenMatches |-> FALSE,
           senderId |-> <<>>, replyText |-> <<>>, matchedPhrase |-> None]

End == "(end)"   \* no node left to run

\* The node that runs after `name` when `name` emits on output `out` (1 is
\* the first output: "true" for an if-node); End when nothing is connected.
Successor(name, out) ==
  IF ~Has(WorkflowConnections, S(name)) THEN End
  ELSE LET main == Get(Get(WorkflowConnections, S(name)), S("main")).xs
       IN IF out > Len(main) \/ main[out].xs = <<>> THEN End
          ELSE Get(main[out].xs[1], S("node")).s[1]

\* an if-node's "isTrue" on ={{$json.<flag>}}: an absent property is not true
IsTrue(item, flag) ==
  /\ flag \in item.keys
  /\ IF flag = "isVerification" THEN item.isVerification ELSE item.shouldReply

Advance(name, out) ==
  /\ node = name
  /\ node' = Successor(name, out)
  /\ visited' = Append(visited, name)

MessengerWebhook ==
  /\ Advance("Messenger Webhook", 1)
  /\ UNCHANGED <<result, sent>>

NormalizeEventNode ==
  /\ Advance("Normalize Event", 1)
  /\ result' = NormalizeEvent(FunctionCodeLiterals(form, keywordRoutes), request)
  /\ UNCHANGED sent

RouteVerification ==
  /\ Advance("Route Verification", IF IsTrue(result, "isVerification") THEN 1 ELSE 2)
  /\ UNCHANGED <<result, sent>>

RespondVerification ==
  /\ Advance("Respond Verification", 1)
  /\ UNCHANGED <<result, sent>>

ShouldReply ==
  /\ Advance("Should Reply?", IF IsTrue(result, "shouldReply") THEN 1 ELSE 2)
  /\ UNCHANGED <<result, sent>>

SendMessengerReply ==
  /\ Advance("Send Messenger Reply", 1)
  /\ sent' = Append(sent, [recipient |-> result.senderId, text |-> result.replyText])
  /\ UNCHANGED result

RespondOK ==
  /\ Advance("Respond OK", 1)
  /\ UNCHANGED <<result, sent>>

(***************************************************************************)
(* The Page component's initial state                                      *)
(***************************************************************************)
MessengerConcierge ==
  <<"M", "e", "s", "s", "e", "n", "g", "e", "r", " ",
    "C", "o", "n", "c", "i", "e", "r", "g", "e">>

FacebookSlash == <<"f", "a", "c", "e", "b", "o", "o", "k", "/">>

InitialForm ==
  [automationName |-> MessengerConcierge,
   verifyToken |-> <<"my-secure-verification-token">>,
   pageAccessToken |-> <<"EAAGYourPageAccessToken">>,
   webhookPath |-> FacebookSlash \o sanitizeWebhookPath(MessengerConcierge),
   defaultReply |-> <<"Thanks for reaching out!">>,
   timezone |-> <<"America/New_York">>]

\* the state of the parts of the page a specification leaves alone
PageIdle ==
  /\ copyStatus = "idle"
  /\ writes = 0
  /\ timers = <<>>
  /\ now = 0

PipelineIdle ==
  /\ request = [query |-> [mode |-> None, verify_token |-> None, challenge |-> None],
                body |-> [shape |-> "noEntry", sender |-> None, text |-> None]]
  /\ result = NoItem
  /\ node = End
  /\ visited = <<>>
  /\ sent = <<>>

(***************************************************************************)
(* SpecParse: parseKeywordInput on every text of the bound                 *)
(***************************************************************************)
MaxInputLen == 6
ParseAlphabet == {"a", " ", "=", ">", "\n"}

ParseInit ==
  /\ pc = "input"
  /\ form = InitialForm
  /\ keywordInput \in StringsUpTo(ParseAlphabet, MaxInputLen)
  /\ keywordRoutes = <<>>
  /\ workflowJson = <<>>
  /\ PipelineIdle
  /\ PageIdle

\* useMemo(() => parseKeywordInput(keywordInput), [keywordInput])
ParseRoutes ==
  /\ pc = "input"
  /\ pc' = "parsed"
  /\ keywordRoutes' = parseKeywordInput(keywordInput)
  /\ UNCHANGED <<form, keywordInput, workflowJson, request, result, node, visited, sent,
                 copyStatus, writes, timers, now>>

ParseNext == ParseRoutes

SpecParse == ParseInit /\ [][ParseNext]_vars

(***************************************************************************)
(* SpecClassify: the pipeline on inbound events, for the configurations    *)
(* and events of the bounds                                                *)
(***************************************************************************)
MaxTextLen == 3
MaxRoutes == 2

TextAlphabet == {"a", "A", "b"}
Phrases == {<<"a">>, <<"A">>, <<"b">>, <<"a", "b">>}

\* the route list whose phrases are ps; the reply of a route names its place
RoutesOf(ps) ==
  [i \in 1..Len(ps) |-> [phrase |-> ps[i], reply |-> <<"reply", " ", Digits[i + 1]>>]]

RouteLists == {RoutesOf(ps) : ps \in StringsUpTo(Phrases, MaxRoutes)}

VerifyTokens == {<<>>, <<"t">>, <<" ", "t">>, <<"t", Quote>>}
ProvidedTokens ==
  {None, Some(<<>>), Some(<<"t">>), Some(<<" ", "t">>), Some(<<"t", Quote>>), Some(<<"u">>)}
Challenges == {None, Some(<<"c", "1">>)}
Modes == {None, Some(<<"subscribe">>), Some(<<"unsubscribe">>)}
DefaultReplies == {<<"d">>, <<" ", "d", "\n">>}
SenderIds == {None, Some(<<>>), Some(<<"4", "2">>)}

Event(mode, token, challenge, shape, sender, text) ==
  [query |-> [mode |-> mode, verify_token |-> token, challenge |-> challenge],
   body |-> [shape |-> shape,
             sender |-> IF shape = "event" THEN sender ELSE None,
             text |-> IF shape = "event" THEN text ELSE None]]

\* subscription handshakes and other requests with query parameters
HandshakeCases ==
  /\ form \in {[InitialForm EXCEPT !.verifyToken = t] : t \in VerifyTokens}
  /\ keywordRoutes \in {<<>>, RoutesOf(<<S("a")>>)}
  /\ request \in {Event(m, t, c, b[1], b[2], b[3]) :
                    m \in Modes, t \in ProvidedTokens, c \in Challenges,
                    b \in {<<"noEntry", None, None>>,
                           <<"event", Some(<<"4", "2">>), Some(<<"a">>)>>}}

\* messages: every text and every route list of the bounds
MessageCases ==
  /\ form \in {[InitialForm EXCEPT !.defaultReply = d] : d \in DefaultReplies}
  /\ keywordRoutes \in RouteLists
  /\ request \in {Event(None, None, None, "event", Some(<<"4", "2">>), Some(t)) :
                    t \in StringsUpTo(TextAlphabet, MaxTextLen) \ {<<>>}}

\* events that lack a sender, a text, or the structure that holds them
IncompleteCases ==
  /\ form \in {[InitialForm EXCEPT !.defaultReply = d] : d \in DefaultReplies}
  /\ keywordRoutes \in {<<>>, RoutesOf(<<S("a")>>)}
  /\ request \in {Event(m, None, None, shape, sender, text) :
                    m \in Modes \ {Some(<<"subscribe">>)}, shape \in BodyShapes,
                    sender \in SenderIds, text \in {None, Some(<<>>), Some(<<"a">>)}}

ClassifyInit ==
  /\ pc = "run"
  /\ keywordInput = <<>>
  /\ workflowJson = <<>>
  /\ \/ HandshakeCases
     \/ MessageCases
     \/ IncompleteCases
  /\ result = NoItem
  /\ node = "Messenger Webhook"
  /\ visited = <<>>
  /\ sent = <<>>
  /\ PageIdle

PipelineFrame ==
  UNCHANGED <<pc, form, keywordInput, keywordRoutes, workflowJson, request,
              copyStatus, writes, timers, now>>

ClassifyNext ==
  \/ MessengerWebhook /\ PipelineFrame
  \/ NormalizeEventNode /\ PipelineFrame
  \/ RouteVerification /\ PipelineFrame
  \/ RespondVerification /\ PipelineFrame
  \/ ShouldReply /\ PipelineFrame
  \/ SendMessengerReply /\ PipelineFrame
  \/ RespondOK /\ PipelineFrame

SpecClassify == ClassifyInit /\ [][ClassifyNext]_vars

\* FairPipeline: the same pipeline under the engine's scheduling (a run that
\* has a node to run runs it), on one event of each kind per configuration
OutcomeCases ==
  /\ form \in {[InitialForm EXCEPT !.verifyToken = t] : t \in {<<"t">>, <<" ", "t">>}}
  /\ keywordRoutes \in {<<>>, RoutesOf(<<S("a")>>), RoutesOf(<<S("b"), S("A")>>)}
  /\ request \in {Event(m, t, None, shape, sender, Some(<<"b", "a">>)) :
                    m \in Modes, t \in {None, Some(<<"t">>)},
                    shape \in {"emptyEntry", "event"}, sender \in SenderIds}

PipelineInit ==
  /\ pc = "run"
  /\ keywordInput = <<>>
  /\ workflowJson = <<>>
  /\ OutcomeCases
  /\ result = NoItem
  /\ node = "Messenger Webhook"
  /\ visited = <<>>
  /\ sent = <<>>
  /\ PageIdle

\* The engine's scheduling step: the node that is due runs and hands over to
\* a node one of its outputs is connected to.  Every step of ClassifyNext is
\* such a step, and one is possible exactly when a step of ClassifyNext is.
RunDueNode ==
  /\ node # End
  /\ node' \in {Successor(node, 1), Successor(node, 2)}

FairPipeline == PipelineInit /\ [][ClassifyNext]_vars /\ WF_node(RunDueNode)

(***************************************************************************)
(* Claims about the route parser                                           *)
(***************************************************************************)
\* index of the first delimiter of line, 0 when it has none
FirstDelimiter(line) ==
  IF \E i \in 1..Len(line) : MatchesAt(line, Delimiter, i)
    THEN CHOOSE i \in 1..Len(line) :
           /\ MatchesAt(line, Delimiter, i)
           /\ \A j \in 1..(i - 1) : ~MatchesAt(line, Delimiter, j)
    ELSE 0

\* the route the claim gives a line: <<>> when it gives none
ClaimedRouteOfLine(line) ==
  LET d == FirstDelimiter(line)
      phrase == Trim(SubSeq(line, 1, d - 1))
      reply == Trim(SubSeq(line, d + Len(Delimiter), Len(line)))
  IN IF d = 0 \/ phrase = <<>> \/ reply = <<>>
       THEN <<>>
       ELSE <<[phrase |-> phrase, reply |-> reply]>>

ClaimedRoutes(value) == Concat(MapSeq(ClaimedRouteOfLine, Split(value, NewLine)))

DelimiterCount(line) == Cardinality({i \in 1..Len(line) : MatchesAt(line, Delimiter, i)})

\* C5: parseKeywordInput returns, in line order, one route per line that has
\* the delimiter with a non-empty trimmed phrase before it and a non-empty
\* trimmed reply after it, the route being those two trimmed segments, and
\* nothing for any other line.
C5_ParserKeepsTheLinesWithPhraseAndReply ==
  pc = "parsed" => keywordRoutes = ClaimedRoutes(keywordInput)

\* The same on the texts none of whose lines holds the delimiter twice.
ParserAgreesOnSingleDelimiterLines ==
  (/\ pc = "parsed"
   /\ \A line \in {Split(keywordInput, NewLine)[i] :
                     i \in 1..Len(Split(keywordInput, NewLine))} :
        DelimiterCount(line) <= 1)
  => keywordRoutes = ClaimedRoutes(keywordInput)

(***************************************************************************)
(* Claims about the classification routine and the pipeline                *)
(***************************************************************************)
Ran(name) == \E i \in 1..Len(visited) : visited[i] = name
Classified == Ran("Normalize Event")
IsHandshake == request.query.mode = Some(<<"subscribe">>)

\* sender id and text of the event's first messaging entry, <<>> when absent
EventSender ==
  IF request.body.shape = "event" /\ request.body.sender.some
    THEN request.body.sender.v ELSE <<>>
EventText ==
  IF request.body.shape = "event" /\ request.body.text.some
    THEN request.body.text.v ELSE <<>>

IsMessage == ~IsHandshake /\ EventSender # <<>> /\ EventText # <<>>

Matches(route) == Includes(toLowerCase(EventText), toLowerCase(route.phrase))
MatchingRoutes == {i \in 1..Len(keywordRoutes) : Matches(keywordRoutes[i])}
FirstMatching == CHOOSE i \in MatchingRoutes : \A j \in MatchingRoutes : i <= j

\* index at which phrase first occurs in the lower-cased text
Occurrence(phrase) ==
  CHOOSE i \in 1..(Len(EventText) + 1) :
    /\ MatchesAt(toLowerCase(EventText), toLowerCase(phrase), i)
    /\ \A j \in 1..(i - 1) : ~MatchesAt(toLowerCase(EventText), toLowerCase(phrase), j)

\* C1: for a message with sender and text, the reply is that of the
\* lowest-index route whose lower-cased phrase is in the lower-cased text.
C1_FirstListedRouteWins ==
  (Classified /\ IsMessage /\ MatchingRoutes # {})
  => /\ result.replyText = keywordRoutes[FirstMatching].reply
     /\ result.shouldReply

\* a later-listed route occurs earlier in the text, and the first-listed wins
C1_Witness ==
  /\ Classified /\ IsMessage
  /\ \E i, j \in MatchingRoutes :
       /\ i < j
       /\ Occurrence(keywordRoutes[j].phrase) < Occurrence(keywordRoutes[i].phrase)
       /\ i = FirstMatching
       /\ result.replyText = keywordRoutes[i].reply

\* C2: a request with hub.mode = subscribe gets 200 and the challenge when
\* hub.verify_token equals form.verifyToken, 403 and the mismatch message
\* when it differs, and never a reply.
C2_HandshakeComparesFormToken ==
  (Classified /\ IsHandshake)
  => /\ request.query.verify_token = Some(form.verifyToken)
          => /\ result.isVerification
             /\ result.statusCode = 200
             /\ request.query.challenge.some
                  => result.responseBody = request.query.challenge.v
     /\ request.query.verify_token # Some(form.verifyToken)
          => /\ result.statusCode = 403
             /\ result.responseBody = <<"Verification token mismatch.">>
     /\ sent = <<>>
     /\ ~Ran("Send Messenger Reply")

NoMatch == Classified /\ IsMessage /\ MatchingRoutes = {}

\* C3 as stated: a message that holds none of the phrases gets
\* form.defaultReply as replyText, a null matchedPhrase, the sender id and
\* shouldReply = true.
C3_NoMatchGivesDefaultReplyAsTyped ==
  NoMatch
  => /\ result.replyText = form.defaultReply
     /\ result.matchedPhrase = None
     /\ result.senderId = EventSender
     /\ result.shouldReply

\* C3, amended: a message that holds none of the phrases gets form.defaultReply
\* with its leading and trailing white space removed as replyText, a null
\* matchedPhrase, the sender id and shouldReply = true.
C3_NoMatchGivesTrimmedDefaultReply ==
  NoMatch
  => /\ result.replyText = Trim(form.defaultReply)
     /\ result.matchedPhrase = None
     /\ "matchedPhrase" \in result.keys
     /\ result.senderId = EventSender
     /\ result.shouldReply /\ "shouldReply" \in result.keys

C3_Witness ==
  /\ NoMatch
  /\ keywordRoutes # <<>>
  /\ form.defaultReply # Trim(form.defaultReply)
  /\ result.replyText = Trim(form.defaultReply)

IsIncomplete == ~IsHandshake /\ (EventSender = <<>> \/ EventText = <<>>)

\* C4: an event without a sender id or without a text is answered 200 with
\* the acknowledgement and shouldReply = false, and the run ends at Respond
\* OK without running Send Messenger Reply or sending anything.
C4_IncompleteEventIsOnlyAcknowledged ==
  IsIncomplete
  => /\ Classified
          => /\ result.statusCode = 200
             /\ result.responseBody = <<"EVENT_RECEIVED">>
             /\ ~result.shouldReply /\ "shouldReply" \in result.keys
             /\ ~result.isVerification
     /\ ~Ran("Send Messenger Reply")
     /\ sent = <<>>
     /\ node = End
          => visited = <<"Messenger Webhook", "Normalize Event", "Route Verification",
                         "Should Reply?", "Respond OK">>

\* an event with a sender and an empty text has run to its end
C4_Witness ==
  /\ IsIncomplete
  /\ node = End
  /\ EventSender # <<>>
  /\ request.body.text = Some(<<>>)
  /\ Ran("Respond OK")

RespondNodes == {"Respond Verification", "Respond OK"}
RespondsRun == {i \in 1..Len(visited) : visited[i] \in RespondNodes}

\* C8: every run from Messenger Webhook along the connections comes to an
\* end, ends at a respond node, has run exactly one respond node, and that
\* node is Respond Verification for a handshake and Respond OK otherwise.
C8_EveryEventIsAcknowledgedOnce ==
  /\ <>(node = End)
  /\ [](Cardinality(RespondsRun) <= 1)
  /\ [](node = End
          => /\ Cardinality(RespondsRun) = 1
             /\ visited[Len(visited)] =
                  IF IsHandshake THEN "Respond Verification" ELSE "Respond OK")

\* a reply has been sent and the run has ended at Respond OK
C8_Witness ==
  /\ node = End
  /\ Ran("Send Messenger Reply")
  /\ visited[Len(visited)] = "Respond OK"
  /\ Cardinality(RespondsRun) = 1

(***************************************************************************)
(* SpecBuild: generateWorkflowJson on the forms and route lists of the     *)
(* bounds                                                                  *)
(***************************************************************************)
MaxNameLen == 3
NameAlphabet == {"a", "B", "1", " ", "-"}
MyBot == <<"M", "y", " ", "B", "o", "t", "!">>

\* values the webhookPath field can hold: blank, a default taken from a name,
\* a typed path after sanitizeWebhookPath
WebhookPaths == {<<>>, FacebookSlash \o <<"a", "-", "b">>, <<"h", "o", "o", "k", "-", "1">>}
PageAccessTokens == {<<"E", "A", "A", "G">>, <<" ", "E", Quote, "G", " ">>}
Timezones == {<<"America/New_York">>, <<"Europe/Paris">>}

\* every name of the bound, with every kind of webhookPath
NameCases ==
  /\ form \in {[InitialForm EXCEPT !.automationName = n, !.webhookPath = w] :
                 n \in StringsUpTo(NameAlphabet, MaxNameLen) \cup {MyBot},
                 w \in WebhookPaths}
  /\ keywordRoutes = <<>>

\* every route list of the bound, with the other fields varied
ConfigCases ==
  /\ form \in {[automationName |-> MyBot, verifyToken |-> v, pageAccessToken |-> p,
                webhookPath |-> <<>>, defaultReply |-> d, timezone |-> z] :
                 v \in {<<"t">>, <<" ", "t", Quote>>}, p \in PageAccessTokens,
                 d \in DefaultReplies, z \in Timezones}
  /\ keywordRoutes \in RouteLists

BuildInit ==
  /\ pc = "form"
  /\ keywordInput = <<>>
  /\ workflowJson = <<>>
  /\ \/ NameCases
     \/ ConfigCases
  /\ PipelineIdle
  /\ PageIdle

\* useMemo(() => generateWorkflowJson(form, keywordRoutes), [form, keywordRoutes])
Generate ==
  /\ pc = "form"
  /\ pc' = "generated"
  /\ \E e \in Entropy : workflowJson' = generateWorkflowJson(form, keywordRoutes, e)
  /\ UNCHANGED <<form, keywordInput, keywordRoutes, request, result, node, visited, sent,
                 copyStatus, writes, timers, now>>

BuildNext == Generate

SpecBuild == BuildInit /\ [][BuildNext]_vars

(***************************************************************************)
(* Claims about the generated document                                     *)
(***************************************************************************)
\* what a reader of the parsed document doc finds in it
NodesOf(doc) == Get(doc, S("nodes")).xs
NodeNamesOf(nodes) == [i \in 1..Len(nodes) |-> Get(nodes[i], S("name")).s]
ConnectionsOf(doc) == Get(doc, S("connections"))

\* the directed links of a connections object: <<source, output, place, target>>
LinksOf(connections) ==
  UNION {
    LET main == Get(connections.xs[k][2], S("main")).xs
    IN UNION {{<<connections.xs[k][1], o, l, Get(main[o].xs[l], S("node")).s>> :
                 l \in 1..Len(main[o].xs)} : o \in 1..Len(main)}
    : k \in 1..Len(connections.xs)}

\* the path parameter of the Messenger Webhook node
WebhookPathOf(doc) ==
  LET nodes == NodesOf(doc)
      webhook == CHOOSE i \in 1..Len(nodes) :
                   Get(nodes[i], S("name")).s = <<"Messenger Webhook">>
  IN Get(Get(nodes[webhook], S("parameters")), S("path")).s

\* the document read back from its serialization
DocumentWebhookPath == WebhookPathOf(Parse(workflowJson))

\* the node names, the keys of connections and the links of the document read
\* back from its serialization
DocumentGraph ==
  LET doc == Parse(workflowJson)
      connections == ConnectionsOf(doc)
  IN [names |-> NodeNamesOf(NodesOf(doc)),
      sources |-> Keys(connections),
      links |-> LinksOf(connections)]

RECURSIVE AlphaNumericRuns(_, _)
\* the maximal runs of characters [a-z0-9] of s, in order (cur is the run being read)
AlphaNumericRuns(s, cur) ==
  LET done == IF cur = <<>> THEN <<>> ELSE <<cur>>
  IN IF s = <<>> THEN done
     ELSE IF Head(s) \in AlphaNumeric THEN AlphaNumericRuns(Tail(s), Append(cur, Head(s)))
     ELSE done \o AlphaNumericRuns(Tail(s), <<>>)

\* the slug of the claim: lower-cased, each maximal run of other characters a
\* single hyphen, no hyphen at either end
ClaimedSlug(name) == JoinWith(AlphaNumericRuns(toLowerCase(name), <<>>), <<"-">>)

IsWellFormed(g) ==
  /\ Len(g.names) = 7
  /\ \A i, j \in 1..Len(g.names) : g.names[i] = g.names[j] => i = j
  /\ \A link \in g.links :
       /\ \E i \in 1..Len(g.names) : g.names[i] = link[1]
       /\ \E i \in 1..Len(g.names) : g.names[i] = link[4]

\* C7 as stated: the document read back has 7 nodes with distinct names and
\* exactly 5 directed links, each from a node to a node.
C7_SevenNodesFiveLinks ==
  pc = "generated"
  => LET g == DocumentGraph
     IN /\ IsWellFormed(g)
        /\ Cardinality(g.links) = 5

\* C7, amended: the document read back has 7 nodes with distinct names and
\* exactly 5 connection entries, one per node that has a successor, which
\* hold 7 directed links in all, each from a node to a node.
C7_SevenNodesFiveSourcesSevenLinks ==
  pc = "generated"
  => LET g == DocumentGraph
     IN /\ IsWellFormed(g)
        /\ Len(g.sources) = 5
        /\ Cardinality({link[1] : link \in g.links}) = 5
        /\ Cardinality(g.links) = 7
        /\ Cardinality({<<link[1], link[4]>> : link \in g.links}) = 7

C7_Witness ==
  /\ pc = "generated"
  /\ keywordRoutes # <<>>
  /\ LET g == DocumentGraph
     IN /\ Len(g.names) = 7
        /\ Cardinality(g.links) = 7
        /\ <<S("Should Reply?"), 2, 1, S("Respond OK")>> \in g.links

(***************************************************************************)
(* SpecSend: generateWorkflowJson on every page access token of the bound  *)
(***************************************************************************)
MaxTokenLen == 3
TokenAlphabet == {"E", " ", Quote, BackSlash}

\* every token of the bound, without and with a route
SendInit ==
  /\ pc = "form"
  /\ keywordInput = <<>>
  /\ workflowJson = <<>>
  /\ form \in {[InitialForm EXCEPT !.pageAccessToken = p] :
                 p \in StringsUpTo(TokenAlphabet, MaxTokenLen)}
  /\ keywordRoutes \in {<<>>, RoutesOf(<<S("a")>>)}
  /\ PipelineIdle
  /\ PageIdle

SpecSend == SendInit /\ [][BuildNext]_vars

(***************************************************************************)
(* Claims about the Send Messenger Reply node                              *)
(***************************************************************************)
\* a parameter of the Send Messenger Reply node of the parsed document doc
SendParameterOf(doc, key) ==
  LET nodes == NodesOf(doc)
      send == CHOOSE i \in 1..Len(nodes) :
                Get(nodes[i], S("name")).s = <<"Send Messenger Reply">>
  IN Get(Get(nodes[send], S("parameters")), S(key)).s

\* s without its leading and trailing whitespace: from its first character
\* that is not whitespace to its last
Stripped(s) ==
  LET solid == {i \in 1..Len(s) : s[i] \notin WhiteSpace}
  IN IF solid = {}
     THEN <<>>
     ELSE SubSeq(s, CHOOSE i \in solid : \A j \in solid : i <= j,
                    CHOOSE i \in solid : \A j \in solid : j <= i)

\* the query template that holds token between the quotes of access_token
AccessTokenTemplate(token) ==
  <<"{", Quote, "access_token", Quote, ":", Quote>> \o token \o <<Quote, "}">>

\* the body template is a JSON text whose recipient id and message text are
\* the two placeholders, and nothing in it comes from the form or the routes
BodyRefersByPlaceholders(body) ==
  LET b == Parse(body)
  IN /\ Keys(b) = <<S("messaging_type"), S("recipient"), S("message")>>
     /\ Get(b, S("messaging_type")) = JStr(S("RESPONSE"))
     /\ Get(b, S("recipient")) = JObj(<<M("id", W("={{$json.senderId}}"))>>)
     /\ Get(b, S("message")) = JObj(<<M("text", W("={{$json.replyText}}"))>>)

\* C11 as stated: in the document read back from its serialization, the
\* query template of Send Messenger Reply holds form.pageAccessToken as
\* typed, whitespace and quotes included, as the access_token, and the body
\* template names the sender id and the reply text by the placeholders only.
C11_AccessTokenIsEmbeddedAsTyped ==
  pc = "generated" =>
    LET doc == Parse(workflowJson)
    IN /\ SendParameterOf(doc, "queryParametersJson")
            = AccessTokenTemplate(form.pageAccessToken)
       /\ BodyRefersByPlaceholders(SendParameterOf(doc, "bodyParametersJson"))

\* C11, amended: the query template holds form.pageAccessToken without its
\* leading and trailing whitespace, and otherwise character for character
\* (a double quote or a backslash stays as typed); the body template as
\* stated.
C11_AccessTokenIsEmbeddedTrimmed ==
  pc = "generated" =>
    LET doc == Parse(workflowJson)
    IN /\ SendParameterOf(doc, "queryParametersJson")
            = AccessTokenTemplate(Stripped(form.pageAccessToken))
       /\ BodyRefersByPlaceholders(SendParameterOf(doc, "bodyParametersJson"))

\* a token typed with a space before it and a double quote at its end has
\* been built into the document, with a route list that is not empty
C11_Witness ==
  /\ pc = "generated"
  /\ form.pageAccessToken = <<" ", "E", Quote>>
  /\ keywordRoutes # <<>>
  /\ SendParameterOf(Parse(workflowJson), "queryParametersJson") =
       <<"{", Quote, "access_token", Quote, ":", Quote, "E", Quote, Quote, "}">>

(***************************************************************************)
(* SpecForm: the form's onChange handlers, from the page's first render    *)
(***************************************************************************)
DEFAULT_KEYWORD_INPUT ==
  <<"status", " ", "=", ">", " ", "Sure thing! Send me your order number.", "\n",
    "refund", " ", "=", ">", " ", "I can help with refunds.", "\n",
    "agent", " ", "=", ">", " ", "I'm looping in a human teammate right away.">>

\* what the user may type or paste into a field
TypedNames == {MyBot, <<"a", " ", "B">>, <<"-">>, <<>>}
TypedPaths == {<<>>, <<"H", "o", "o", "k", " ", "1">>, FacebookSlash \o <<"a">>}
TypedVerifyTokens == {InitialForm.verifyToken, <<" ", "t", Quote>>}
TypedPageAccessTokens == {InitialForm.pageAccessToken, <<" ", "E", Quote, "G", " ">>}
TypedDefaultReplies == {InitialForm.defaultReply, <<" ", "d", "\n">>}
TypedKeywordInputs == {DEFAULT_KEYWORD_INPUT, <<"a", "=", ">", "b", "\n", "B">>}

FormInit ==
  /\ pc = "page"
  /\ form = InitialForm
  /\ keywordInput = DEFAULT_KEYWORD_INPUT
  /\ keywordRoutes = parseKeywordInput(DEFAULT_KEYWORD_INPUT)
  /\ workflowJson \in {generateWorkflowJson(InitialForm,
                                            parseKeywordInput(DEFAULT_KEYWORD_INPUT), e) :
                         e \in Entropy}
  /\ PipelineIdle
  /\ PageIdle

\* AlwaysDerivedWebhookPath: the default taken from every new name
AlwaysDerivedWebhookPath(previous, value) == FacebookSlash \o sanitizeWebhookPath(value)

\* previous.webhookPath || `facebook/${sanitizeWebhookPath(event.target.value)}`
NextWebhookPath(previous, value) ==
  IF previous.webhookPath # <<>> THEN previous.webhookPath
  ELSE FacebookSlash \o sanitizeWebhookPath(value)

\* The render that follows a state update: useMemo computes workflowJson
\* anew from the new form and routes.
Render ==
  /\ \E e \in Entropy : workflowJson' = generateWorkflowJson(form', keywordRoutes', e)
  /\ UNCHANGED <<pc, request, result, node, visited, sent, copyStatus, writes, timers, now>>

EditAutomationName ==
  \E value \in TypedNames :
    /\ form' = [form EXCEPT !.automationName = value,
                            !.webhookPath = NextWebhookPath(form, value)]
    /\ UNCHANGED <<keywordInput, keywordRoutes>>
    /\ Render

EditVerifyToken ==
  \E value \in TypedVerifyTokens :
    /\ form' = [form EXCEPT !.verifyToken = value]
    /\ UNCHANGED <<keywordInput, keywordRoutes>>
    /\ Render

EditPageAccessToken ==
  \E value \in TypedPageAccessTokens :
    /\ form' = [form EXCEPT !.pageAccessToken = value]
    /\ UNCHANGED <<keywordInput, keywordRoutes>>
    /\ Render

EditWebhookPath ==
  \E value \in TypedPaths :
    /\ form' = [form EXCEPT !.webhookPath = sanitizeWebhookPath(value)]
    /\ UNCHANGED <<keywordInput, keywordRoutes>>
    /\ Render

EditTimezone ==
  \E value \in Timezones :
    /\ form' = [form EXCEPT !.timezone = value]
    /\ UNCHANGED <<keywordInput, keywordRoutes>>
    /\ Render

EditDefaultReply ==
  \E value \in TypedDefaultReplies :
    /\ form' = [form EXCEPT !.defaultReply = value]
    /\ UNCHANGED <<keywordInput, keywordRoutes>>
    /\ Render

\* setKeywordInput(event.target.value)
EditKeywordInput ==
  \E value \in TypedKeywordInputs :
    /\ keywordInput' = value
    /\ keywordRoutes' = parseKeywordInput(value)
    /\ UNCHANGED form
    /\ Render

FormNext ==
  \/ EditAutomationName
  \/ EditVerifyToken
  \/ EditPageAccessToken
  \/ EditWebhookPath
  \/ EditTimezone
  \/ EditDefaultReply
  \/ EditKeywordInput

SpecForm == FormInit /\ [][FormNext]_vars

(***************************************************************************)
(* Claims about the form                                                   *)
(***************************************************************************)
NameEdited == form'.automationName # form.automationName
OtherFieldEdited ==
  \/ form'.verifyToken # form.verifyToken
  \/ form'.pageAccessToken # form.pageAccessToken
  \/ form'.defaultReply # form.defaultReply
  \/ form'.timezone # form.timezone

KeepsPathOtherwise ==
  /\ (NameEdited /\ form.webhookPath # <<>>) => form'.webhookPath = form.webhookPath
  /\ OtherFieldEdited => form'.webhookPath = form.webhookPath

\* C9 as stated: an edit of automationName with webhookPath blank sets
\* webhookPath to the slug of the new name; one with webhookPath not blank
\* leaves it; edits of verifyToken, pageAccessToken, defaultReply and
\* timezone leave it.
C9_BlankPathTakesSlugOfName ==
  [][/\ (NameEdited /\ form.webhookPath = <<>>)
          => form'.webhookPath = ClaimedSlug(form'.automationName)
     /\ KeepsPathOtherwise]_vars

\* C9, amended: an edit of automationName with webhookPath blank sets
\* webhookPath to "facebook/" followed by the slug of the new name; the rest
\* as stated.
C9_BlankPathTakesFacebookSlashSlugOfName ==
  [][/\ (NameEdited /\ form.webhookPath = <<>>)
          => form'.webhookPath = FacebookSlash \o ClaimedSlug(form'.automationName)
     /\ KeepsPathOtherwise]_vars

\* the path was blank when the name became "My Bot!", and a later name has
\* left the default taken then
C9_Witness ==
  /\ form.webhookPath = FacebookSlash \o <<"m", "y", "-", "b", "o", "t">>
  /\ form.automationName = <<"a", " ", "B">>

(***************************************************************************)
(* SpecCopy: handleCopy, the clipboard and the timers                      *)
(*                                                                         *)
(* writes counts the handleCopy calls that await writeText.  A timer is    *)
(* [due, status]: due is when its callback setCopyStatus("idle") may run;  *)
(* status is what the handleCopy call that armed it had just shown (the    *)
(* callback itself does not know it).  Timers have one delay, so they are  *)
(* due in the order they were armed, and the host runs a due callback      *)
(* before the clock moves on.                                              *)
(***************************************************************************)
CopyResetDelayMs == 2600
TickMs == 650       \* the clock's step
MaxTicks == 8       \* the clock stops after this many steps
MaxCopies == 2      \* handleCopy calls that may be awaited or shown at once

CopyInit ==
  /\ pc = "page"
  /\ form = InitialForm
  /\ keywordInput = DEFAULT_KEYWORD_INPUT
  /\ keywordRoutes = parseKeywordInput(DEFAULT_KEYWORD_INPUT)
  /\ workflowJson \in {generateWorkflowJson(InitialForm,
                                            parseKeywordInput(DEFAULT_KEYWORD_INPUT), e) :
                         e \in Entropy}
  /\ PipelineIdle
  /\ PageIdle

CopyFrame ==
  UNCHANGED <<pc, form, keywordInput, keywordRoutes, workflowJson, request, result,
              node, visited, sent>>

\* onClick={handleCopy}: up to the await of navigator.clipboard.writeText
ClickCopy ==
  /\ writes + Len(timers) < MaxCopies
  /\ writes' = writes + 1
  /\ UNCHANGED <<copyStatus, timers, now>>
  /\ CopyFrame

\* setCopyStatus(status); setTimeout(() => setCopyStatus("idle"), 2600)
Show(status) ==
  /\ copyStatus' = status
  /\ timers' = Append(timers, [due |-> now + CopyResetDelayMs, status |-> status])

\* writeText resolves: handleCopy goes on in the try block
WriteResolves ==
  /\ writes > 0
  /\ writes' = writes - 1
  /\ Show("success")
  /\ UNCHANGED now
  /\ CopyFrame

\* writeText rejects: handleCopy goes on in the catch block
WriteRejects ==
  /\ writes > 0
  /\ writes' = writes - 1
  /\ Show("error")
  /\ UNCHANGED now
  /\ CopyFrame

\* a timer comes due and its callback runs
TimerFires ==
  /\ timers # <<>>
  /\ Head(timers).due <= now
  /\ copyStatus' = "idle"
  /\ timers' = Tail(timers)
  /\ UNCHANGED <<writes, now>>
  /\ CopyFrame

Tick ==
  /\ now < MaxTicks * TickMs
  /\ timers # <<>> => now < Head(timers).due
  /\ now' = now + TickMs
  /\ UNCHANGED <<copyStatus, writes, timers>>
  /\ CopyFrame

CopyNext ==
  \/ ClickCopy
  \/ WriteResolves
  \/ WriteRejects
  \/ TimerFires
  \/ Tick

SpecCopy == CopyInit /\ [][CopyNext]_vars

(***************************************************************************)
(* Claims about the copy status                                            *)
(***************************************************************************)
\* C10: a copy attempt shows error when the write fails and success when it
\* succeeds, and what the latest attempt shows stays shown until 2600 ms
\* after that attempt completed, whatever other attempts and timers do.
C10_StatusStaysForTheFullDelay ==
  (timers # <<>> /\ now < timers[Len(timers)].due)
  => copyStatus = timers[Len(timers)].status

====
